---- MODULE Spec2Model ----
(***************************************************************************)
(* A model of the mass-shooting dashboard (src/app.py) and of the batch    *)
(* geocoding script (src/geocoding.py).                                    *)
(*                                                                         *)
(* A table (pandas DataFrame) is a record [columns, rows]: columns is the  *)
(* sequence of column names, rows a sequence of rows, and a row is a       *)
(* function from column name to cell.  A text cell is a sequence of        *)
(* one-character strings, a numeric cell is <<n>>, and the missing value   *)
(* (NaN / None / NaT) is the empty sequence in both.  A character outside  *)
(* ASCII is written as its code point, "U+0662".  Text of the geocoding    *)
(* service that the script only carries along is kept whole.               *)
(* Input files carry the seven columns the loader expects and victim       *)
(* counts are numbers or empty.  px.scatter_mapbox is followed as far as   *)
(* what it is handed and whether it raises.  A float drawn by the random   *)
(* generator is kept by its interval, the row it was drawn for and a name. *)
(***************************************************************************)
EXTENDS Integers, Sequences, FiniteSets, TLC

VARIABLES
    pc,               \* position of the running script
    \* src/app.py
    disk,             \* the two candidate data files
    df,               \* the loaded table (module global df)
    processed_df,     \* module global processed_df
    min_year,         \* slider lower end
    max_year,         \* slider upper end
    size_metric,      \* value of the 'size-metric' RadioItems
    color_metric,     \* value of the 'color-metric' RadioItems
    year_range,       \* value of the 'year-slider' RangeSlider
    plotted,          \* filtered_df of the last call: the rows handed to the map
    figure,           \* first output of update_map (what px.scatter_mapbox got)
    incidents_count,  \* second output of update_map: N of "Showing N incidents"
    callback,         \* how the last call of update_map ended
    \* process_data applied to a table, and to its own result
    table,            \* the argument T
    once,             \* process_data(T)
    twice,            \* process_data(process_data(T))
    \* the year extraction of process_data applied to one date
    incident_date,    \* an 'Incident Date' cell
    year,             \* the 'Year' cell derived from it
    \* src/geocoding.py
    incidents,        \* df, the original incident table
    response,         \* what requests.post returned
    results_df,       \* the parsed response
    merged_df,        \* the merged table
    written,          \* the files this run has written
    reported          \* the status code printed by the error branch

appVars == <<disk, df, processed_df, min_year, max_year, size_metric,
             color_metric, year_range, plotted, figure, incidents_count,
             callback>>

normVars == <<table, once, twice>>

yearVars == <<incident_date, year>>

geoVars == <<incidents, response, results_df, merged_df, written, reported>>

vars == <<pc, appVars, normVars, yearVars, geoVars>>

----------------------------------------------------------------------------
(* Bounds of the model *)

\* rows of an input table
MaxRows == 2

\* characters of a date cell, where single dates are followed
MaxDateLen == 7

----------------------------------------------------------------------------
(* Cells *)

NaN == <<>>

IsNA(c) == c = NaN

Num(n) == <<n>>

Val(c) == c[1]

AsciiDigits == <<"0", "1", "2", "3", "4", "5", "6", "7", "8", "9">>

\* ARABIC-INDIC DIGIT ZERO .. NINE, the decimal digits outside ASCII that
\* the model follows; the other blocks of Unicode decimal digits behave alike
ArabicIndicDigits ==
    <<"U+0660", "U+0661", "U+0662", "U+0663", "U+0664",
      "U+0665", "U+0666", "U+0667", "U+0668", "U+0669">>

\* what \d matches and float() reads: the Unicode decimal digits
Digits ==
    {AsciiDigits[i] : i \in 1..10} \cup {ArabicIndicDigits[i] : i \in 1..10}

DigitVal(c) ==
    (CHOOSE i \in 1..10 : AsciiDigits[i] = c \/ ArabicIndicDigits[i] = c) - 1

\* float(text) for a text of digits; NaN stays NaN (Series.astype(float))
RECURSIVE DigitsToInt(_)
DigitsToInt(s) ==
    IF Len(s) = 0 THEN 0
    ELSE 10 * DigitsToInt(SubSeq(s, 1, Len(s) - 1)) + DigitVal(s[Len(s)])

astype_float(c) == IF IsNA(c) THEN NaN ELSE Num(DigitsToInt(c))

\* between with the ends left out
between_exclusive(c, left, right) ==
    /\ ~IsNA(c)
    /\ left < Val(c)
    /\ Val(c) < right

\* Series.between(left, right): inclusive on both ends, NaN compares False
between(c, left, right) ==
    /\ ~IsNA(c)
    /\ left <= Val(c)
    /\ Val(c) <= right

----------------------------------------------------------------------------
(* Tables *)

ExpectedColumns ==
    <<"Incident ID", "Incident Date", "State", "City Or County", "Address",
      "Victims Killed", "Victims Injured">>

Range(s) == {s[i] : i \in 1..Len(s)}

HasColumn(t, c) == c \in Range(t.columns)

\* df[name] = values : a new column is appended, an existing one overwritten
SetColumn(t, name, values) ==
    [columns |-> IF HasColumn(t, name) THEN t.columns ELSE Append(t.columns, name),
     rows    |-> [i \in 1..Len(t.rows) |->
                    [c \in DOMAIN t.rows[i] \cup {name} |->
                        IF c = name THEN values[i] ELSE t.rows[i][c]]]]

Column(t, name) == [i \in 1..Len(t.rows) |-> t.rows[i][name]]

\* df[mask] : the rows whose mask is True, in order
RECURSIVE SelectRows(_, _)
SelectRows(rows, mask) ==
    IF Len(rows) = 0 THEN <<>>
    ELSE LET rest == SelectRows(SubSeq(rows, 1, Len(rows) - 1),
                                SubSeq(mask, 1, Len(mask) - 1))
         IN  IF mask[Len(rows)] THEN Append(rest, rows[Len(rows)]) ELSE rest

EmptyTable == [columns |-> ExpectedColumns, rows |-> <<>>]

\* the value of a module global before the statement that binds it has run
NoTable == [columns |-> <<>>, rows |-> <<>>]

----------------------------------------------------------------------------
(* process_data (src/app.py) *)

IsDigit(c) == c \in Digits

\* Series.str.extract(r'(\d{4})'): the leftmost four consecutive digits
MatchAt(s, i) ==
    /\ i + 3 <= Len(s)
    /\ \A k \in i..(i + 3) : IsDigit(s[k])

\* the pattern (?<!\d)(\d{4})(?!\d): four digits with no digit on either side
ExtractYear_isolated(s) ==
    LET Isolated(i) ==
            /\ MatchAt(s, i)
            /\ i = 1 \/ ~IsDigit(s[i - 1])
            /\ i + 3 = Len(s) \/ ~IsDigit(s[i + 4])
    IN  IF IsNA(s) \/ ~\E i \in 1..Len(s) : Isolated(i)
        THEN NaN
        ELSE LET first == CHOOSE i \in 1..Len(s) :
                              Isolated(i) /\ \A j \in 1..(i - 1) : ~Isolated(j)
             IN  SubSeq(s, first, first + 3)

ExtractYear(s) ==
    IF IsNA(s) \/ ~\E i \in 1..Len(s) : MatchAt(s, i)
    THEN NaN
    ELSE LET first == CHOOSE i \in 1..Len(s) :
                          /\ MatchAt(s, i)
                          /\ \A j \in 1..(i - 1) : ~MatchAt(s, j)
         IN  SubSeq(s, first, first + 3)

IsAsciiDigit(c) == \E i \in 1..10 : AsciiDigits[i] = c

\* a cell that read_csv reads as a number: ASCII digits after an optional
\* sign (of the characters the date cells of the model are made of)
NumericText(c) ==
    /\ ~IsNA(c)
    /\ LET body == IF c[1] \in {"-", "+"} THEN SubSeq(c, 2, Len(c)) ELSE c
       IN  /\ Len(body) >= 1
           /\ \A k \in 1..Len(body) : IsAsciiDigit(body[k])

\* The .str accessor raises AttributeError on a column that is not of text
\* dtype.  read_csv gives a column the text dtype when it holds a cell that
\* is neither empty nor a number; a column of numbers and empty cells is
\* int64 or float64.  A column without rows keeps the object dtype and
\* passes.
StrAccessorOK(col) ==
    Len(col) = 0 \/ \E i \in 1..Len(col) : ~IsNA(col[i]) /\ ~NumericText(col[i])

\* pd.to_datetime(column, errors='coerce'): an empty cell gives NaT; what a
\* text gives (a timestamp, or NaT when it does not parse) is a function of
\* the text and of the first text of the column, from which the format is
\* inferred, and is kept as that pair
FirstText(col) == col[CHOOSE i \in 1..Len(col) :
                         ~IsNA(col[i]) /\ \A j \in 1..(i - 1) : IsNA(col[j])]

to_datetime(col) ==
    [i \in 1..Len(col) |->
        IF IsNA(col[i]) THEN NaN
        ELSE [parsed |-> col[i], format_of |-> FirstText(col)]]

\* a sum that reads a missing operand as 0
AddCells_fillzero(a, b) ==
    Num((IF IsNA(a) THEN 0 ELSE Val(a)) + (IF IsNA(b) THEN 0 ELSE Val(b)))

\* NaN propagates through the element-wise +
AddCells(a, b) == IF IsNA(a) \/ IsNA(b) THEN NaN ELSE Num(Val(a) + Val(b))

\* str(cell) inside an f-string: a missing cell prints as nan
Format(c) == IF IsNA(c) THEN <<"n", "a", "n">> ELSE c

CommaSpace == <<",", " ">>

\* f"{row['Address']}, {row['City Or County']}, {row['State']}, USA"
FullLocation(row) ==
    IF {"Address", "City Or County", "State"} \subseteq DOMAIN row
    THEN Format(row["Address"]) \o CommaSpace \o Format(row["City Or County"])
           \o CommaSpace \o Format(row["State"]) \o CommaSpace \o <<"U", "S", "A">>
    ELSE NaN

\* isinstance(loc, str) and name in loc: name is a substring of the text
Mentions(loc, name) ==
    /\ ~IsNA(loc)
    /\ \E i \in 1..Len(loc) :
           /\ i + Len(name) - 1 <= Len(loc)
           /\ SubSeq(loc, i, i + Len(name) - 1) = name

Texas == <<"T", "e", "x", "a", "s">>

California == <<"C", "a", "l", "i", "f", "o", "r", "n", "i", "a">>

NewYork == <<"N", "e", "w", " ", "Y", "o", "r", "k">>

\* The bounding box mock_geocode draws from for a location
Box(loc) ==
    CASE Mentions(loc, Texas)      -> [lat |-> <<26, 36>>, lon |-> <<-106, -93>>]
      [] Mentions(loc, California) -> [lat |-> <<32, 42>>, lon |-> <<-124, -114>>]
      [] Mentions(loc, NewYork)    -> [lat |-> <<40, 45>>, lon |-> <<-80, -73>>]
      [] OTHER                       -> [lat |-> <<25, 49>>, lon |-> <<-125, -65>>]

\* A float of the closed interval [low, high] drawn for element i of the
\* coordinate arrays, by name.  Two floats drawn for the same element from
\* the same interval are the same float exactly when they have the same
\* name; how the floats drawn for different elements compare is left open.
Float(interval, i, name) == <<"float", interval[1], interval[2], i, name>>

IsFloat(c) == Len(c) = 5 /\ c[1] = "float"

\* The floats one call of np.random.uniform can return.  The program stores
\* a drawn float and hands it to the map; it never computes with it, never
\* branches on it and never holds the coordinates of two rows against each
\* other.  x and y stand for any two different floats of the interval of
\* the draw (the high end included, which rounding can give): one name for
\* each of the two calls of process_data a behaviour holds the results of,
\* so that the coordinate of a row after the second call is the float of
\* the first call or another one.  A row's coordinates take two independent
\* draws, <<for lat, for lon>>.
Outcomes == {"x", "y"}

Draws(n) == [1..n -> Outcomes \X Outcomes]

\* np.random.uniform(low, high) for element i: the float the generator
\* drew, u
Uniform(interval, i, u) == Float(interval, i, u)

\* a geocoder that finds nothing for a location outside its three states
mock_geocode_unmatched(locations, rnd) ==
    LET known(loc) == \E st \in {Texas, California, NewYork} : Mentions(loc, st)
    IN  [lats |-> [i \in 1..Len(locations) |->
                      IF known(locations[i])
                      THEN Uniform(Box(locations[i]).lat, i, rnd[i][1]) ELSE NaN],
         lons |-> [i \in 1..Len(locations) |->
                      IF known(locations[i])
                      THEN Uniform(Box(locations[i]).lon, i, rnd[i][2]) ELSE NaN]]

mock_geocode(locations, rnd) ==
    [lats |-> [i \in 1..Len(locations) |->
                  Uniform(Box(locations[i]).lat, i, rnd[i][1])],
     lons |-> [i \in 1..Len(locations) |->
                  Uniform(Box(locations[i]).lon, i, rnd[i][2])]]

WithYear(t) ==
    IF HasColumn(t, "Incident Date")
    THEN SetColumn(t, "Year",
                   [i \in 1..Len(t.rows) |-> ExtractYear(t.rows[i]["Incident Date"])])
    ELSE t

WithDate(t) ==
    IF HasColumn(t, "Incident Date")
    THEN SetColumn(t, "Date", to_datetime(Column(t, "Incident Date")))
    ELSE t

WithTotal(t) ==
    IF HasColumn(t, "Victims Killed") /\ HasColumn(t, "Victims Injured")
    THEN SetColumn(t, "Total Victims",
                   [i \in 1..Len(t.rows) |->
                       AddCells(t.rows[i]["Victims Killed"],
                                t.rows[i]["Victims Injured"])])
    ELSE t

WithLocation(t) ==
    SetColumn(t, "Full Location",
              [i \in 1..Len(t.rows) |-> FullLocation(t.rows[i])])

WithCoordinates(t, rnd) ==
    LET geo == mock_geocode(Column(t, "Full Location"), rnd)
    IN  SetColumn(SetColumn(t, "latitude", geo.lats), "longitude", geo.lons)

\* process_data raises where the .str accessor does
process_data_raises(t) ==
    /\ HasColumn(t, "Incident Date")
    /\ ~StrAccessorOK(Column(t, "Incident Date"))

\* rnd: the outcomes of the random generator during this call, one per row
process_data(t, rnd) ==
    WithCoordinates(WithLocation(WithTotal(WithDate(WithYear(t)))), rnd)

----------------------------------------------------------------------------
(* update_map (src/app.py) *)

Metrics == {"Total Victims", "Victims Killed", "Victims Injured"}

\* filtered_df[filtered_df['Year'].astype(float).between(lo, hi)]
YearMask(t, yr) ==
    [i \in 1..Len(t.rows) |-> between(astype_float(t.rows[i]["Year"]), yr[1], yr[2])]

FilterByYear(t, yr) ==
    IF HasColumn(t, "Year")
    THEN [columns |-> t.columns, rows |-> SelectRows(t.rows, YearMask(t, yr))]
    ELSE t

\* the N of the title "... (N incidents displayed)"
TitleCount(filtered) == Len(filtered.rows)

\* the count taken from the whole table instead of the subset
MessageCount_unfiltered(filtered) == Len(processed_df.rows)

\* the N of "Showing N incidents"
MessageCount(filtered) == Len(filtered.rows)

\* px.scatter_mapbox raises ValueError when the size column holds a missing
\* value: the marker size must be a number >= 0
PlotRaises(filtered_df, sm) ==
    /\ HasColumn(filtered_df, sm)
    /\ \E i \in 1..Len(filtered_df.rows) : IsNA(filtered_df.rows[i][sm])

\* update_map that also drops the rows whose colour metric is missing
update_map_refilter(t, sm, cm, yr) ==
    LET inrange == FilterByYear(t, yr)
        filtered_df ==
            [columns |-> inrange.columns,
             rows |-> SelectRows(inrange.rows,
                                 [i \in 1..Len(inrange.rows) |->
                                     ~IsNA(inrange.rows[i][cm])])]
    IN  [raises |-> PlotRaises(filtered_df, sm),
         figure |-> [data_frame |-> filtered_df.rows,
                     size  |-> IF HasColumn(filtered_df, sm) THEN sm ELSE "None",
                     color |-> IF HasColumn(filtered_df, cm) THEN cm ELSE "None",
                     title |-> TitleCount(filtered_df)],
         incidents_count |-> MessageCount(filtered_df)]

\* raises: the call ends in the exception of px.scatter_mapbox and returns
\* nothing; otherwise figure holds the data frame, the size and colour
\* columns and the title count the map is drawn from
update_map(t, sm, cm, yr) ==
    LET filtered_df == FilterByYear(t, yr)
    IN  [raises |-> PlotRaises(filtered_df, sm),
         figure |-> [data_frame |-> filtered_df.rows,
                     size  |-> IF HasColumn(filtered_df, sm) THEN sm ELSE "None",
                     color |-> IF HasColumn(filtered_df, cm) THEN cm ELSE "None",
                     title |-> TitleCount(filtered_df)],
         incidents_count |-> MessageCount(filtered_df)]

NoFigure == [data_frame |-> <<>>, size |-> "None", color |-> "None", title |-> 0]

----------------------------------------------------------------------------
(* The input files the model follows *)

\* The date cells "2021", "2022-03" written with Arabic-Indic digits, and
\* "3/22"
Date2021 == <<"2", "0", "2", "1">>

Date2022 == <<"U+0662", "U+0660", "U+0662", "U+0662", "-", "0", "3">>

DateNoYear == <<"3", "/", "2", "2">>

Ohio == <<"O", "h", "i", "o">>

MainSt == <<"1", " ", "M", "a", "i", "n", " ", "S", "t">>

TexasAve == <<"2", " ", "T", "e", "x", "a", "s", " ", "A", "v", "e">>

Ada == <<"A", "d", "a">>

IncidentRowAt(id, date, address, city, state, killed, injured) ==
    [c \in Range(ExpectedColumns) |->
        CASE c = "Incident ID"     -> Num(id)
          [] c = "Incident Date"   -> date
          [] c = "State"           -> state
          [] c = "City Or County"  -> city
          [] c = "Address"         -> address
          [] c = "Victims Killed"  -> killed
          [] c = "Victims Injured" -> injured]

IncidentRow(id, date, state, killed, injured) ==
    IncidentRowAt(id, date, MainSt, Ada, state, killed, injured)

\* <<date, killed>> of the rows of the dashboard's input
AppCells ==
    {<<Date2021, Num(1)>>, <<Date2022, NaN>>, <<DateNoYear, Num(1)>>}

AppTables ==
    UNION {{[columns |-> ExpectedColumns,
             rows |-> [i \in 1..n |->
                          IncidentRow(i, f[i][1], Ohio, f[i][2], Num(2))]] :
               f \in [1..n -> AppCells]} : n \in 0..MaxRows}

Absent == [kind |-> "absent", table |-> NoTable]

Malformed == [kind |-> "malformed", table |-> NoTable]

Csv(t) == [kind |-> "csv", table |-> t]

Primary == "data/MassShootingIncidnets.csv"

Alternative == "data/MassShootingIncidents.csv"

Files == {Primary, Alternative}

MakeDisk(a, b) == [f \in Files |-> IF f = Primary THEN a ELSE b]

AppDisks ==
    {MakeDisk(Csv(t), Absent) : t \in AppTables}
      \cup {MakeDisk(Absent, Csv(t)) : t \in {u \in AppTables : Len(u.rows) <= 1}}
      \cup {MakeDisk(Absent, Absent), MakeDisk(Malformed, Absent),
            MakeDisk(Absent, Malformed),
            MakeDisk(Malformed, Csv([columns |-> ExpectedColumns,
                                     rows |-> <<IncidentRow(1, DateNoYear, Ohio,
                                                            Num(1), Num(2))>>]))}

----------------------------------------------------------------------------
(* src/app.py, statement by statement *)

NoResponse == [status_code |-> 0, rows |-> <<>>]

AppRestIdle ==
    /\ df = NoTable
    /\ processed_df = NoTable
    /\ min_year = 0
    /\ max_year = 0
    /\ size_metric = "None"
    /\ color_metric = "None"
    /\ year_range = <<0, 0>>
    /\ plotted = <<>>
    /\ figure = NoFigure
    /\ incidents_count = 0
    /\ callback = "none"

AppIdle == disk = MakeDisk(Absent, Absent) /\ AppRestIdle

NormIdle == table = NoTable /\ once = NoTable /\ twice = NoTable

YearIdle == incident_date = NaN /\ year = NaN

GeoIdle ==
    /\ incidents = NoTable
    /\ response = NoResponse
    /\ results_df = NoTable
    /\ merged_df = NoTable
    /\ written = {}
    /\ reported = 0

Init ==
    /\ pc = "load"
    /\ NormIdle /\ YearIdle /\ GeoIdle
    /\ disk \in AppDisks
    /\ df = NoTable
    /\ processed_df = NoTable
    /\ min_year = 0
    /\ max_year = 0
    /\ size_metric = "None"
    /\ color_metric = "None"
    /\ year_range = <<0, 0>>
    /\ plotted = <<>>
    /\ figure = NoFigure
    /\ incidents_count = 0
    /\ callback = "none"

\* os.path.exists
Exists(path) == disk[path].kind # "absent"

\* the path pd.read_csv is given
DataPath ==
    IF ~Exists(Primary) /\ Exists(Alternative) THEN Alternative ELSE Primary

\* pd.read_csv raises on a file that is absent or cannot be parsed
ReadRaises(path) == disk[path].kind # "csv"

\* a handler that catches the missing file only
LoadedTable_missingOnly ==
    IF disk[DataPath].kind = "absent" THEN EmptyTable ELSE disk[DataPath].table

LoadedTable ==
    IF ReadRaises(DataPath) THEN EmptyTable ELSE disk[DataPath].table

Load ==
    /\ pc = "load"
    /\ df' = LoadedTable
    /\ pc' = "process"
    /\ UNCHANGED <<disk, processed_df, min_year, max_year, size_metric,
                   color_metric, year_range, plotted, figure, incidents_count,
                   callback>>
    /\ UNCHANGED <<normVars, yearVars, geoVars>>

ProcessData ==
    /\ pc = "process"
    /\ IF process_data_raises(df)
       THEN /\ pc' = "crashed"
            /\ UNCHANGED processed_df
       ELSE /\ \E rnd \in Draws(Len(df.rows)) : processed_df' = process_data(df, rnd)
            /\ pc' = "slider"
    /\ UNCHANGED <<disk, df, min_year, max_year, size_metric, color_metric,
                   year_range, plotted, figure, incidents_count, callback>>
    /\ UNCHANGED <<normVars, yearVars, geoVars>>

Years(t) == {Val(astype_float(t.rows[i]["Year"])) :
                i \in {j \in 1..Len(t.rows) : ~IsNA(t.rows[j]["Year"])}}

Min(S) == CHOOSE x \in S : \A y \in S : x <= y

Max(S) == CHOOSE x \in S : \A y \in S : y <= x

DefaultMinYear == 2020

DefaultMaxYear == 2025

MinYear(t) ==
    IF HasColumn(t, "Year") /\ Years(t) # {} THEN Min(Years(t)) ELSE DefaultMinYear

MaxYear(t) ==
    IF HasColumn(t, "Year") /\ Years(t) # {} THEN Max(Years(t)) ELSE DefaultMaxYear

SliderBounds ==
    /\ pc = "slider"
    /\ min_year' = MinYear(processed_df)
    /\ max_year' = MaxYear(processed_df)
    /\ pc' = "layout"
    /\ UNCHANGED <<disk, df, processed_df, size_metric, color_metric,
                   year_range, plotted, figure, incidents_count, callback>>
    /\ UNCHANGED <<normVars, yearVars, geoVars>>

\* A change of one input runs the callback with the current value of all
\* three inputs.  A call that raises updates neither output: the page keeps
\* the figure and the message of the last call that returned.
Callback(sm, cm, yr) ==
    LET out == update_map(processed_df, sm, cm, yr)
    IN  /\ size_metric' = sm
        /\ color_metric' = cm
        /\ year_range' = yr
        /\ plotted' = out.figure.data_frame
        /\ IF out.raises
           THEN /\ callback' = "raised"
                /\ UNCHANGED <<figure, incidents_count>>
           ELSE /\ callback' = "returned"
                /\ figure' = out.figure
                /\ incidents_count' = out.incidents_count
        /\ pc' = "serving"
        /\ UNCHANGED <<disk, df, processed_df, min_year, max_year>>
        /\ UNCHANGED <<normVars, yearVars, geoVars>>

\* The page is served with the controls at their initial values
PageLoad ==
    /\ pc = "layout"
    /\ Callback("Total Victims", "Victims Killed", <<min_year, max_year>>)

SelectSizeMetric ==
    /\ pc = "serving"
    /\ \E sm \in Metrics \ {size_metric} : Callback(sm, color_metric, year_range)

SelectColorMetric ==
    /\ pc = "serving"
    /\ \E cm \in Metrics \ {color_metric} : Callback(size_metric, cm, year_range)

MoveYearSlider ==
    /\ pc = "serving"
    /\ \E lo \in min_year..max_year, hi \in min_year..max_year :
           /\ lo <= hi
           /\ <<lo, hi>> # year_range
           /\ Callback(size_metric, color_metric, <<lo, hi>>)

Next ==
    \/ Load
    \/ ProcessData
    \/ SliderBounds
    \/ PageLoad
    \/ SelectSizeMetric
    \/ SelectColorMetric
    \/ MoveYearSlider

Spec == Init /\ [][Next]_vars

----------------------------------------------------------------------------
(* Claims about the dashboard, checked under Spec *)

LoadFails == ReadRaises(DataPath)

YearNumber(row) == DigitsToInt(row["Year"])

InYearRange(row, yr) ==
    /\ ~IsNA(row["Year"])
    /\ yr[1] <= YearNumber(row)
    /\ YearNumber(row) <= yr[2]

Returned == pc = "serving" /\ callback = "returned"

\* C1: the rows a call of update_map hands to the map are exactly the rows
\* of the processed table whose Year, read as a number, lies in [lo, hi],
\* both ends included, in the table's order; a row without a Year is never
\* among them.  A call that returns shows these rows in its figure.
C1_YearFilterExact ==
    pc = "serving" =>
        /\ Range(plotted) =
               {r \in Range(processed_df.rows) : InYearRange(r, year_range)}
        /\ \A r \in Range(plotted) : ~IsNA(r["Year"])
        /\ \A i, j \in 1..Len(plotted) :
               i < j => Val(plotted[i]["Incident ID"])
                          < Val(plotted[j]["Incident ID"])
        /\ Returned => figure.data_frame = plotted

\* a call kept a row whose Year equals an end of the range and left out a
\* row with no Year
C1_Witness ==
    /\ Returned
    /\ \E r \in Range(figure.data_frame) : YearNumber(r) = year_range[1]
    /\ \E r \in Range(figure.data_frame) : YearNumber(r) = year_range[2]
    /\ \E r \in Range(processed_df.rows) :
           r \notin Range(figure.data_frame) /\ IsNA(r["Year"])

\* a call left out a row with a Year outside the range
C1_WitnessOutside ==
    /\ Returned
    /\ figure.data_frame # <<>>
    /\ \E r \in Range(processed_df.rows) :
           /\ r \notin Range(figure.data_frame)
           /\ ~IsNA(r["Year"])

\* C2: the N of "Showing N incidents" and the N of the map title that a call
\* of update_map returns both equal the number of rows of the subset the
\* same call handed to the map.
C2_CountMatchesSubset ==
    Returned =>
        /\ incidents_count = Len(plotted)
        /\ figure.title = Len(plotted)

\* a call whose subset is a proper, non-empty part of the table
C2_Witness ==
    /\ Returned
    /\ incidents_count >= 1
    /\ incidents_count < Len(processed_df.rows)

\* C3: a call that differs from the call before it only in the size or the
\* colour metric (same table, same year range) hands the same rows to the
\* map, and when both calls return they show the same rows and report the
\* same count.
C3_MetricNeverRefilters ==
    [][(pc = "serving" /\ year_range' = year_range)
          => /\ plotted' = plotted
             /\ (Returned /\ Returned')
                   => /\ figure'.data_frame = figure.data_frame
                      /\ figure'.title = figure.title
                      /\ incidents_count' = incidents_count]_vars

\* The same as a state predicate: with whatever pair of metrics the call is
\* repeated, the subset and its count are those of the last call.
C3_AnyMetricSameSubset ==
    pc = "serving" =>
        \A sm \in Metrics, cm \in Metrics :
            LET out == update_map(processed_df, sm, cm, year_range)
            IN  /\ out.figure.data_frame = plotted
                /\ out.figure.title = Len(plotted)
                /\ out.incidents_count = Len(plotted)

\* a call with both metrics changed from their initial values, on a subset
\* that holds a row whose colour metric is missing and one whose is not
C3_Witness ==
    /\ Returned
    /\ size_metric = "Victims Injured"
    /\ color_metric = "Total Victims"
    /\ \E r \in Range(figure.data_frame) : IsNA(r["Total Victims"])
    /\ \E r \in Range(figure.data_frame) : ~IsNA(r["Total Victims"])

\* a call that ended in the exception of the plot after one that returned
\* with the same year range
C3_WitnessRaised ==
    /\ pc = "serving"
    /\ callback = "raised"
    /\ plotted # <<>>
    /\ figure.data_frame = plotted

\* C9: when reading the incident file fails the loader leaves the empty
\* table with the seven expected columns, start-up goes on to serve the
\* page without a crash, and every call of update_map reports 0 incidents.
C9_LoadFailureServesEmpty ==
    LoadFails =>
        /\ pc # "load" => df = [columns |-> ExpectedColumns, rows |-> <<>>]
        /\ pc # "crashed"
        /\ callback # "raised"
        /\ pc # "serving" => ENABLED Next
        /\ pc = "serving" =>
               /\ incidents_count = 0
               /\ figure.title = 0
               /\ figure.data_frame = <<>>

\* a later call (the slider moved) after a failed read of a malformed file
C9_Witness ==
    /\ LoadFails
    /\ callback = "returned"
    /\ disk[DataPath].kind = "malformed"
    /\ pc = "serving"
    /\ year_range # <<min_year, max_year>>
    /\ size_metric # "Total Victims"

C9_WitnessAbsent ==
    /\ LoadFails
    /\ disk[Primary].kind = "absent"
    /\ disk[Alternative].kind = "absent"
    /\ pc = "serving"

----------------------------------------------------------------------------
(* process_data as a function: applied to a table T, then to its result *)

\* <<date, state, killed, injured>> of the rows of T
NormCells ==
    {<<Date2022, Texas, Num(3), Num(2)>>, <<DateNoYear, Ohio, NaN, Num(2)>>,
     <<Date2021, Texas, Num(3), NaN>>, <<Date2022, Ohio, NaN, NaN>>}

NormBase ==
    UNION {{[columns |-> ExpectedColumns,
             rows |-> [i \in 1..n |->
                          IncidentRow(i, f[i][1], f[i][2], f[i][3], f[i][4])]] :
               f \in [1..n -> NormCells]} : n \in 0..MaxRows}

\* a table that already carries coordinate columns, every cell of them
\* empty: the output of the geocoding script when nothing matched
WithEmptyCoordinates(t) ==
    SetColumn(SetColumn(t, "latitude", [i \in 1..Len(t.rows) |-> NaN]),
              "longitude", [i \in 1..Len(t.rows) |-> NaN])

\* a table whose date cells are a number and an empty cell
NoDateTable ==
    [columns |-> ExpectedColumns,
     rows |-> <<IncidentRow(1, NaN, Ohio, Num(3), Num(2)),
                IncidentRow(2, Date2021, Ohio, Num(3), Num(2))>>]

\* a table with an empty date cell, and with the name of a state in the
\* address of an incident of another state
TexasAveTable ==
    [columns |-> ExpectedColumns,
     rows |-> <<IncidentRowAt(1, Date2022, TexasAve, Ada, Ohio, Num(3), Num(2)),
                IncidentRow(2, NaN, Ohio, Num(3), Num(2))>>]

NormTables ==
    NormBase
      \cup {WithEmptyCoordinates(t) : t \in {u \in NormBase : Len(u.rows) <= 1}}
      \cup {NoDateTable, TexasAveTable}

InitNorm ==
    /\ pc = "normalize"
    /\ AppIdle /\ YearIdle /\ GeoIdle
    /\ table \in NormTables
    /\ once = NoTable
    /\ twice = NoTable

Normalize ==
    /\ pc = "normalize"
    /\ IF process_data_raises(table)
       THEN /\ pc' = "crashed"
            /\ UNCHANGED once
       ELSE /\ \E rnd \in Draws(Len(table.rows)) : once' = process_data(table, rnd)
            /\ pc' = "normalized"
    /\ UNCHANGED <<table, twice, appVars, yearVars, geoVars>>

NormalizeAgain ==
    /\ pc = "normalized"
    /\ IF process_data_raises(once)
       THEN /\ pc' = "crashed"
            /\ UNCHANGED twice
       ELSE /\ \E rnd \in Draws(Len(once.rows)) : twice' = process_data(once, rnd)
            /\ pc' = "renormalized"
    /\ UNCHANGED <<table, once, appVars, yearVars, geoVars>>

NextNorm == Normalize \/ NormalizeAgain

SpecNorm == InitNorm /\ [][NextNorm]_vars

Normalized == pc \in {"normalized", "renormalized"}

\* the tables process_data has returned so far
Outputs ==
    IF pc = "renormalized" THEN {once, twice}
    ELSE IF pc = "normalized" THEN {once} ELSE {}

\* C6: in every row process_data returns, Total Victims is Victims Killed +
\* Victims Injured when both are present and is missing when either is
\* missing.
C6_TotalIsSumOrMissing ==
    \A t \in Outputs : \A r \in Range(t.rows) :
        IF IsNA(r["Victims Killed"]) \/ IsNA(r["Victims Injured"])
        THEN IsNA(r["Total Victims"])
        ELSE /\ ~IsNA(r["Total Victims"])
             /\ Val(r["Total Victims"]) =
                    Val(r["Victims Killed"]) + Val(r["Victims Injured"])

\* an output with a row whose total is a sum, a row without killed and a
\* row without injured
C6_Witness ==
    /\ pc = "normalized"
    /\ \E r \in Range(once.rows) : r["Total Victims"] = Num(5)
    /\ \E r \in Range(once.rows) :
           IsNA(r["Victims Killed"]) /\ ~IsNA(r["Victims Injured"])

C6_WitnessInjured ==
    /\ pc = "normalized"
    /\ \E r \in Range(once.rows) :
           ~IsNA(r["Victims Killed"]) /\ IsNA(r["Victims Injured"])

\* C7: process_data(process_data(T)) equals process_data(T) in its rows
\* and in every column, latitude and longitude included.
C7_Idempotent == pc = "renormalized" => twice = once

Coordinates == {"latitude", "longitude"}

\* What the second application does keep: the columns, the rows and the
\* value of every column other than latitude and longitude.
C7_OtherColumnsKept ==
    pc = "renormalized" =>
        /\ twice.columns = once.columns
        /\ Len(twice.rows) = Len(once.rows)
        /\ \A i \in 1..Len(once.rows) :
               /\ DOMAIN twice.rows[i] = DOMAIN once.rows[i]
               /\ \A c \in DOMAIN once.rows[i] \ Coordinates :
                      twice.rows[i][c] = once.rows[i][c]

\* a second application that drew another latitude for a row with a year
\* and a total
C7_SecondDrawDiffers ==
    /\ pc = "renormalized"
    /\ \E i \in 1..Len(once.rows) :
           /\ twice.rows[i]["latitude"] # once.rows[i]["latitude"]
           /\ ~IsNA(twice.rows[i]["Year"])
           /\ ~IsNA(twice.rows[i]["Total Victims"])

\* a float the generator drew, or a number read from the file
IsNumber(c) == IsFloat(c) \/ (Len(c) = 1 /\ c[1] \in Int)

\* C8: every row process_data returns has a latitude and a longitude, both
\* present and numeric.
C8_CoordinatesPresent ==
    \A t \in Outputs :
        /\ Coordinates \subseteq Range(t.columns)
        /\ \A r \in Range(t.rows) :
               /\ ~IsNA(r["latitude"]) /\ IsNumber(r["latitude"])
               /\ ~IsNA(r["longitude"]) /\ IsNumber(r["longitude"])

\* an input that came with empty coordinate cells, and an input from a
\* state mock_geocode has no box for
C8_Witness ==
    /\ pc = "normalized"
    /\ HasColumn(table, "latitude")
    /\ \E i \in 1..Len(table.rows) :
           /\ IsNA(table.rows[i]["latitude"])
           /\ table.rows[i]["State"] = Ohio
           /\ ~IsNA(once.rows[i]["latitude"])

----------------------------------------------------------------------------
(* The year extraction of process_data, one date cell at a time *)

DateAlphabet == {"1", "2", "/", "U+0662"}

DateCells == UNION {[1..n -> DateAlphabet] : n \in 0..MaxDateLen}

InitYear ==
    /\ pc = "extract"
    /\ AppIdle /\ NormIdle /\ GeoIdle
    /\ incident_date \in DateCells
    /\ year = NaN

Extract ==
    /\ pc = "extract"
    /\ year' = ExtractYear(incident_date)
    /\ pc' = "extracted"
    /\ UNCHANGED <<incident_date, appVars, normVars, geoVars>>

NextYear == Extract

SpecYear == InitYear /\ [][NextYear]_vars

\* s[i..j] is a run of digits that no digit precedes or follows
IsRun(s, i, j) ==
    /\ 1 <= i /\ i <= j /\ j <= Len(s)
    /\ \A k \in i..j : IsDigit(s[k])
    /\ i = 1 \/ ~IsDigit(s[i - 1])
    /\ j = Len(s) \/ ~IsDigit(s[j + 1])

\* the starts of the runs of digits of s whose length satisfies Fits
RunStarts(s, Fits(_)) ==
    {i \in 1..Len(s) : \E j \in i..Len(s) : IsRun(s, i, j) /\ Fits(j - i + 1)}

ExactlyFour(n) == n = 4

AtLeastFour(n) == n >= 4

\* the first four characters of the first run picked out by Fits
FirstRunYear(s, Fits(_)) ==
    IF RunStarts(s, Fits) = {} THEN NaN
    ELSE LET i == Min(RunStarts(s, Fits)) IN SubSeq(s, i, i + 3)

\* C10, as claimed: the Year is the first run of exactly four digits of the
\* date (a run of any other length is not a year); without such a run the
\* Year is missing.
C10_FirstRunOfExactlyFour ==
    pc = "extracted" => year = FirstRunYear(incident_date, ExactlyFour)

\* C10, amended: the Year is the first four digits of the first run of at
\* least four digits of the date (a shorter run is not a year, a longer one
\* gives its leading four digits); without such a run the Year is missing.
C10_FirstFourOfLongRun ==
    pc = "extracted" => year = FirstRunYear(incident_date, AtLeastFour)

\* a date whose first run of digits is too short and whose second run is
\* longer than four digits, one of them not an ASCII digit
C10_Witness ==
    /\ pc = "extracted"
    /\ ~IsNA(year)
    /\ \E k \in 1..4 : ~IsAsciiDigit(year[k])
    /\ \E i \in 2..Len(incident_date) :
           /\ ~IsDigit(incident_date[i])
           /\ IsRun(incident_date, 1, i - 1)
           /\ IsRun(incident_date, i + 1, Len(incident_date))
           /\ Len(incident_date) - i > 4

C10_WitnessMissing ==
    /\ pc = "extracted"
    /\ IsNA(year)
    /\ \E i \in 1..Len(incident_date) : IsDigit(incident_date[i])

----------------------------------------------------------------------------
(* src/geocoding.py, statement by statement *)

BatchFile == "census_batch.csv"

ResultsFile == "census_results.csv"

MergedFile == "mass_shootings_geocoded.csv"

ResultColumns ==
    <<"id", "input_address", "matched_address", "match_type",
      "longitude", "latitude", "tiger_line_id", "side">>

\* one row of the service's answer: a match carries coordinates, a record
\* the service could not match carries none
ResultRow(id, matched) ==
    [c \in Range(ResultColumns) |->
        CASE c = "id"              -> Num(id)
          [] c = "input_address"   -> "1 Main St, Springfield, Ohio,"
          [] c = "matched_address" -> IF matched THEN "1 MAIN ST, SPRINGFIELD, OH" ELSE NaN
          [] c = "match_type"      -> IF matched THEN "Exact" ELSE NaN
          [] c = "longitude"       -> IF matched THEN Num(-83) ELSE NaN
          [] c = "latitude"        -> IF matched THEN Num(40) ELSE NaN
          [] c = "tiger_line_id"   -> IF matched THEN Num(7) ELSE NaN
          [] c = "side"            -> IF matched THEN "L" ELSE NaN]

\* the incident files the script is run on: identifiers are unique
GeoTables ==
    {[columns |-> ExpectedColumns,
      rows |-> [i \in 1..n |-> IncidentRow(i, Date2021, Ohio, Num(1), Num(2))]] :
        n \in 0..MaxRows}

\* the identifiers an answer may carry: those submitted and a foreign one
AnswerIds == 1..(MaxRows + 1)

\* the members of a set of numbers in increasing order
RECURSIVE Sorted(_)
Sorted(S) == IF S = {} THEN <<>> ELSE <<Min(S)>> \o Sorted(S \ {Min(S)})

\* the answers the service may give: rows for any set of identifiers, each
\* at most once, each matched or not; no rows at all is one of them
Answers ==
    UNION {{[i \in 1..Cardinality(ids) |-> ResultRow(Sorted(ids)[i], m[Sorted(ids)[i]])] :
              m \in [ids -> BOOLEAN]} : ids \in SUBSET AnswerIds}

StatusCodes == {200, 404, 500}

InitGeo ==
    /\ pc = "prepare"
    /\ AppRestIdle /\ NormIdle /\ YearIdle
    /\ disk \in {MakeDisk(Csv(t), Absent) : t \in GeoTables} \cup {MakeDisk(Absent, Absent)}
    /\ incidents = NoTable
    /\ response = NoResponse
    /\ results_df = NoTable
    /\ merged_df = NoTable
    /\ written = {}
    /\ reported = 0

\* lines 7-25: read the incidents, write the batch file
PrepareBatch ==
    /\ pc = "prepare"
    /\ IF ReadRaises(Primary)
       THEN /\ pc' = "raised"
            /\ UNCHANGED <<incidents, written>>
       ELSE /\ incidents' = disk[Primary].table
            /\ written' = written \cup {BatchFile}
            /\ pc' = "submit"
    /\ UNCHANGED <<response, results_df, merged_df, reported>>
    /\ UNCHANGED <<appVars, normVars, yearVars>>

\* lines 29-37: requests.post returns a response, or raises
Submit ==
    /\ pc = "submit"
    /\ \/ /\ \E code \in StatusCodes, rows \in Answers :
                response' = [status_code |-> code, rows |-> rows]
          /\ pc' = "check"
       \/ /\ pc' = "raised"
          /\ UNCHANGED response
    /\ UNCHANGED <<incidents, results_df, merged_df, written, reported>>
    /\ UNCHANGED <<appVars, normVars, yearVars>>

\* a test that lets every code below 500 through
Successful_below500(code) == code < 500

Successful(code) == code = 200

\* lines 40-44
CheckStatus ==
    /\ pc = "check"
    /\ IF Successful(response.status_code)
       THEN /\ pc' = "save"
            /\ UNCHANGED reported
       ELSE /\ reported' = response.status_code
            /\ pc' = "exited"
    /\ UNCHANGED <<incidents, response, results_df, merged_df, written>>
    /\ UNCHANGED <<appVars, normVars, yearVars>>

\* lines 47-48
SaveResponse ==
    /\ pc = "save"
    /\ written' = written \cup {ResultsFile}
    /\ pc' = "parse"
    /\ UNCHANGED <<incidents, response, results_df, merged_df, reported>>
    /\ UNCHANGED <<appVars, normVars, yearVars>>

\* pd.read_csv(..., header=None) raises EmptyDataError on a file without
\* a line
ParseRaises(rows) == Len(rows) = 0

\* lines 56-62
ParseResults ==
    /\ pc = "parse"
    /\ IF ParseRaises(response.rows)
       THEN /\ pc' = "raised"
            /\ UNCHANGED results_df
       ELSE /\ results_df' = [columns |-> ResultColumns, rows |-> response.rows]
            /\ pc' = "merge"
    /\ UNCHANGED <<incidents, response, merged_df, written, reported>>
    /\ UNCHANGED <<appVars, normVars, yearVars>>

MergeColumns == <<"id", "latitude", "longitude">>

\* a left row joined with a right row, or with no right row
Joined(l, r) ==
    [c \in DOMAIN l \cup Range(MergeColumns) |->
        IF c \in DOMAIN l THEN l[c] ELSE r[c]]

Unjoined(l) ==
    [c \in DOMAIN l \cup Range(MergeColumns) |-> IF c \in DOMAIN l THEN l[c] ELSE NaN]

\* the rows a left row gives: one per right row with its key, in the right
\* table's order, and one with empty cells when there is none
MatchesOf(l, right) ==
    LET mask == [i \in 1..Len(right) |-> right[i]["id"] = l["Incident ID"]]
        hits == SelectRows(right, mask)
    IN  IF Len(hits) = 0 THEN <<Unjoined(l)>>
        ELSE [i \in 1..Len(hits) |-> Joined(l, hits[i])]

RECURSIVE MergeRows(_, _)
MergeRows(left, right) ==
    IF Len(left) = 0 THEN <<>>
    ELSE MergeRows(SubSeq(left, 1, Len(left) - 1), right)
           \o MatchesOf(left[Len(left)], right)

\* df.merge(results_df[['id', 'latitude', 'longitude']],
\*          left_on='Incident ID', right_on='id', how='left')
LeftMerge(l, r) ==
    [columns |-> l.columns \o MergeColumns, rows |-> MergeRows(l.rows, r.rows)]

\* line 65
Merge ==
    /\ pc = "merge"
    /\ merged_df' = LeftMerge(incidents, results_df)
    /\ pc' = "write"
    /\ UNCHANGED <<incidents, response, results_df, written, reported>>
    /\ UNCHANGED <<appVars, normVars, yearVars>>

\* line 68
SaveMerged ==
    /\ pc = "write"
    /\ written' = written \cup {MergedFile}
    /\ pc' = "done"
    /\ UNCHANGED <<incidents, response, results_df, merged_df, reported>>
    /\ UNCHANGED <<appVars, normVars, yearVars>>

NextGeo ==
    \/ PrepareBatch
    \/ Submit
    \/ CheckStatus
    \/ SaveResponse
    \/ ParseResults
    \/ Merge
    \/ SaveMerged

SpecGeo == InitGeo /\ [][NextGeo]_vars

\* the run is over: the script ended, exited or died on an exception
Ended == pc \in {"done", "exited", "raised"}

Answered == response # NoResponse

\* the rows of the merged table that stem from the incident with this id
RowsOf(id) == {i \in 1..Len(merged_df.rows) : merged_df.rows[i]["Incident ID"] = id}

ResultIds == {response.rows[i]["id"] : i \in 1..Len(response.rows)}

\* C4: whatever rows the service answered with (matches for all, some or
\* none of the identifiers), a run that got its answer ends with a merged
\* table that has one row per original incident, and an incident without a
\* result row has empty latitude and longitude.
C4_MergeKeepsEveryIncident ==
    (Ended /\ Answered /\ Successful(response.status_code)) =>
        /\ Len(merged_df.rows) = Len(incidents.rows)
        /\ \A i \in 1..Len(incidents.rows) :
               LET id == incidents.rows[i]["Incident ID"]
               IN  /\ Cardinality(RowsOf(id)) = 1
                   /\ id \notin ResultIds =>
                          \A k \in RowsOf(id) :
                             /\ IsNA(merged_df.rows[k]["latitude"])
                             /\ IsNA(merged_df.rows[k]["longitude"])

\* The same for the runs in which the merge was reached.
C4_MergeIsLeftJoin ==
    pc \in {"write", "done"} =>
        /\ Len(merged_df.rows) = Len(incidents.rows)
        /\ \A i \in 1..Len(incidents.rows) :
               LET id == incidents.rows[i]["Incident ID"]
               IN  /\ Cardinality(RowsOf(id)) = 1
                   /\ id \notin ResultIds =>
                          \A k \in RowsOf(id) :
                             /\ IsNA(merged_df.rows[k]["latitude"])
                             /\ IsNA(merged_df.rows[k]["longitude"])

\* C5: after a response with a status code other than 200 the run reports
\* the code and stops: the response is neither saved nor parsed, nothing is
\* merged and the merged output file is not written.
C5_ErrorStatusStopsRun ==
    (Answered /\ pc # "check" /\ response.status_code # 200) =>
        /\ pc = "exited"
        /\ reported = response.status_code
        /\ results_df = NoTable
        /\ merged_df = NoTable
        /\ written = {BatchFile}

\* a run stopped by a 404 whose body held rows for the submitted incidents
C5_Witness ==
    /\ pc = "exited"
    /\ response.status_code = 404
    /\ Len(incidents.rows) >= 1
    /\ Len(response.rows) >= 1

====
